---- MODULE Spec2Model ----
(***************************************************************************)
(* A model of rt-pdf-from-markdown (src/src/main.py): the directory        *)
(* processor, the document converter, the writability probe, the CSS       *)
(* generator, the Markdown discovery and the renderer locator.             *)
(*                                                                         *)
(* The external collaborators (the filesystem, the YAML parser, the        *)
(* Markdown library, pdfkit, the subprocess that runs which/where) are the *)
(* environment: what each of them answers is an input, drawn from a small  *)
(* set, and the control flow of main.py decides everything else.           *)
(***************************************************************************)
EXTENDS Integers, Sequences, FiniteSets, TLC

\* The largest number of entries of the input directory tree.
MaxFiles == 2

None == "None"

Range(s) == {s[i] : i \in 1..Len(s)}

\* The subsequence of s of its elements in keep, in the order of s.
RECURSIVE SelectIn(_, _)
SelectIn(s, keep) ==
    IF s = <<>> THEN <<>>
    ELSE IF Head(s) \in keep THEN <<Head(s)>> \o SelectIn(Tail(s), keep)
    ELSE SelectIn(Tail(s), keep)

(***************************************************************************)
(* Configuration: load_config and generate_css.                            *)
(*                                                                         *)
(* A configuration is the set of the leaf keys it holds, each written as   *)
(* its path; config['fonts']['main']['size'] is the lookup of              *)
(* "fonts.main.size", and raises KeyError when the path is not there.      *)
(***************************************************************************)

\* The lookups of generate_css's f-string, in the order Python evaluates them.
CssSlots ==
    << "fonts.main.family", "fonts.main.size", "fonts.main.line_height",
       "document.margins.top", "colors.background", "colors.text",
       "fonts.code.family", "fonts.code.size", "fonts.code.background",
       "fonts.code.padding", "fonts.code.border_radius",
       "fonts.pre.family", "fonts.pre.size", "fonts.pre.background",
       "fonts.pre.padding", "fonts.pre.border_radius",
       "tables.margin", "tables.border_width", "colors.table_border",
       "tables.cell_padding", "colors.table_header_bg", "images.max_width" >>

\* The lookups of the pdfkit options dictionary, in order.
OptionSlots ==
    << "document.page_size", "document.margins.top", "document.margins.right",
       "document.margins.bottom", "document.margins.left" >>

AllKeys == Range(CssSlots) \cup Range(OptionSlots)

\* An exception: its class, the text of its message and what the message names.
Exc(cls, text, arg) == [cls |-> cls, text |-> text, arg |-> arg]

NoExc == Exc("none", "", None)

Raised(e) == e.cls # "none"

\* The first slot of slots whose key the configuration lacks, 0 when none.
RECURSIVE FirstMissing(_, _, _)
FirstMissing(slots, config, i) ==
    IF i > Len(slots) THEN 0
    ELSE IF slots[i] \notin config THEN i
    ELSE FirstMissing(slots, config, i + 1)

\* generate_css with config.get(key, default) lookups: a missing key is
\* replaced by a default and the text is always produced.
generate_css_defaults(config) ==
    [exc |-> NoExc, css |-> [i \in 1..Len(CssSlots) |->
                                IF CssSlots[i] \in config THEN CssSlots[i] ELSE "default"]]

\* generate_css: the CSS text (the substituted values, slot by slot) or the
\* KeyError of the first lookup that fails; a raise returns no text.
generate_css(config) ==
    LET m == FirstMissing(CssSlots, config, 1) IN
    IF m = 0
    THEN [exc |-> NoExc, css |-> [i \in 1..Len(CssSlots) |-> CssSlots[i]]]
    ELSE [exc |-> Exc("KeyError", "", CssSlots[m]), css |-> <<>>]

\* The options dictionary of the pdfkit call, or the KeyError of its first
\* failing lookup.
pdf_options(config) ==
    LET m == FirstMissing(OptionSlots, config, 1) IN
    IF m = 0
    THEN [exc |-> NoExc, options |-> [i \in 1..Len(OptionSlots) |-> OptionSlots[i]]]
    ELSE [exc |-> Exc("KeyError", "", OptionSlots[m]), options |-> <<>>]

\* A configuration file: unreadable or unparsable, or a mapping.
ConfigFile(readable, keys) == [readable |-> readable, keys |-> keys]

\* load_config: the parsed mapping, or any failure wrapped into one Exception.
load_config(file) ==
    IF file.readable
    THEN [exc |-> NoExc, config |-> file.keys]
    ELSE [exc |-> Exc("Exception", "Error loading config file: ", "OSError"),
          config |-> {}]

\* Every configuration file the model draws: unreadable, complete, and complete
\* but for one key.
AllConfigFiles ==
    {ConfigFile(FALSE, {}), ConfigFile(TRUE, AllKeys)}
        \cup {ConfigFile(TRUE, AllKeys \ {k}) : k \in AllKeys}

\* The configuration files of a directory run: one of each kind.
RunConfigFiles ==
    { ConfigFile(FALSE, {}), ConfigFile(TRUE, AllKeys),
      ConfigFile(TRUE, AllKeys \ {"fonts.main.size"}),
      ConfigFile(TRUE, AllKeys \ {"document.page_size"}) }

(***************************************************************************)
(* The renderer locator: find_wkhtmltopdf.                                 *)
(***************************************************************************)

Systems == {"windows", "linux"}

common_paths(system) ==
    IF system = "windows"
    THEN << "C:\\Program Files\\wkhtmltopdf\\bin\\wkhtmltopdf.exe",
            "C:\\Program Files (x86)\\wkhtmltopdf\\bin\\wkhtmltopdf.exe",
            "sys.prefix\\Scripts\\wkhtmltopdf.exe" >>
    ELSE << "/usr/local/bin/wkhtmltopdf", "/usr/bin/wkhtmltopdf",
            "/opt/homebrew/bin/wkhtmltopdf" >>

search_command(system) == IF system = "windows" THEN "where" ELSE "which"

program_files == << "ProgramFiles", "ProgramFiles(x86)" >>

\* What the PATH-search subprocess does: it cannot be run (subprocess.run
\* raises), or it exits with a code and a standard output.
SearchOutcomes ==
    { [raised |-> TRUE,  returncode |-> 1, stdout |-> ""],
      [raised |-> FALSE, returncode |-> 1, stdout |-> ""],
      [raised |-> FALSE, returncode |-> 0, stdout |-> "\n"],
      [raised |-> FALSE, returncode |-> 0, stdout |-> "/path/bin/wkhtmltopdf\n"] }

\* str.strip on the standard outputs above.
Strip(s) ==
    CASE s = "\n" -> ""
      [] s = "/path/bin/wkhtmltopdf\n" -> "/path/bin/wkhtmltopdf"
      [] OTHER -> s

\* A host: its system, what the PATH search does, which of common_paths exist,
\* and which Program Files roots hold a wkhtmltopdf.exe somewhere below them.
Hosts ==
    { [system |-> s, search |-> o, exists |-> e, walk |-> w] :
        s \in Systems, o \in SearchOutcomes,
        e \in SUBSET (1..3), w \in SUBSET (1..2) }

\* os.path.join(root, "wkhtmltopdf.exe") of the first directory os.walk finds
\* below Program Files root r.
WalkHit(r) ==
    IF r = 1 THEN "ProgramFiles\\...\\wkhtmltopdf.exe"
    ELSE "ProgramFiles(x86)\\...\\wkhtmltopdf.exe"

\* The scan of common_paths from entry i on: the probes made and the path found.
RECURSIVE ScanCommon(_, _)
ScanCommon(h, i) ==
    IF i > Len(common_paths(h.system)) THEN [probes |-> <<>>, path |-> None]
    ELSE IF i \in h.exists
    THEN [probes |-> << <<"exists", i>> >>, path |-> common_paths(h.system)[i]]
    ELSE LET rest == ScanCommon(h, i + 1) IN
         [probes |-> << <<"exists", i>> >> \o rest.probes, path |-> rest.path]

\* The walk of the Program Files roots from root r on.
RECURSIVE ScanProgramFiles(_, _)
ScanProgramFiles(h, r) ==
    IF r > Len(program_files) THEN [probes |-> <<>>, path |-> None]
    ELSE IF r \in h.walk
    THEN [probes |-> << <<"walk", r>> >>, path |-> WalkHit(r)]
    ELSE LET rest == ScanProgramFiles(h, r + 1) IN
         [probes |-> << <<"walk", r>> >> \o rest.probes, path |-> rest.path]

\* find_wkhtmltopdf with the well-known install paths checked before the PATH
\* search.
find_wkhtmltopdf_common_first(h) ==
    LET first  == << <<search_command(h.system), 0>> >>
        common == ScanCommon(h, 1)
        walk   == ScanProgramFiles(h, 1)
    IN  IF common.path # None
        THEN [path |-> common.path, probes |-> common.probes]
        ELSE IF ~h.search.raised /\ h.search.returncode = 0
        THEN [path |-> Strip(h.search.stdout), probes |-> common.probes \o first]
        ELSE IF h.system = "windows"
        THEN [path |-> walk.path, probes |-> common.probes \o first \o walk.probes]
        ELSE [path |-> None, probes |-> common.probes \o first]

\* find_wkhtmltopdf on host h: what it returns and the probes it made, in order.
find_wkhtmltopdf(h) ==
    LET first  == << <<search_command(h.system), 0>> >>
        common == ScanCommon(h, 1)
        walk   == ScanProgramFiles(h, 1)
    IN  IF ~h.search.raised /\ h.search.returncode = 0
        THEN [path |-> Strip(h.search.stdout), probes |-> first]
        ELSE IF common.path # None
        THEN [path |-> common.path, probes |-> first \o common.probes]
        ELSE IF h.system = "windows"
        THEN [path |-> walk.path, probes |-> first \o common.probes \o walk.probes]
        ELSE [path |-> None, probes |-> first \o common.probes]

\* if wkhtmltopdf_path is None: the empty string passes.
Falsy_none_only(path) == path = None

\* if not wkhtmltopdf_path: None and the empty string are both falsy.
Falsy(path) == path = None \/ path = ""

\* The hosts of a directory run: no install at a well-known place, and each
\* outcome of the PATH search.
RunHosts == {h \in Hosts : h.system = "linux" /\ h.exists = {} /\ h.walk = {}}

(***************************************************************************)
(* Markdown discovery and the mirrored output path.                        *)
(*                                                                         *)
(* A path is its root, its directories below the root and its file name;   *)
(* a file name is its parts between the dots ("a.md" is <<"a", "md">>,     *)
(* ".md" is <<"", "md">>).                                                 *)
(***************************************************************************)

File(dir, name) == [dir |-> dir, name |-> name]

\* The entries an input tree may hold, in the order the traversal yields them.
Universe ==
    << File(<<>>, <<"a", "md">>), File(<<>>, <<"a", "markdown">>),
       File(<<"sub">>, <<"a", "md">>), File(<<>>, <<"notes", "txt">>),
       File(<<>>, <<"", "md">>) >>

Trees == {t \in SUBSET Range(Universe) : Cardinality(t) <= MaxFiles}

\* fnmatch of a name against "*" + ext: the name ends with the extension.
Matches(name, ext) == Len(name) >= 2 /\ name[Len(name)] = ext

\* Path(directory).rglob("*" + ext), as Path objects below input_dir.
rglob(input_dir, tree, ext) ==
    LET hit == SelectIn(Universe, {f \in tree : Matches(f.name, ext)}) IN
    [i \in 1..Len(hit) |-> [root |-> input_dir, dir |-> hit[i].dir, name |-> hit[i].name]]

\* find_markdown_files: every *.md, then every *.markdown.
find_markdown_files(input_dir, tree) ==
    rglob(input_dir, tree, "md") \o rglob(input_dir, tree, "markdown")

\* PurePath.suffix: the text from the last dot on, when that dot is neither the
\* first nor the last character of the name.
HasSuffix(name) ==
    /\ Len(name) >= 2
    /\ name[Len(name)] # ""
    /\ (Len(name) >= 3 \/ name[1] # "")

\* PurePath.with_suffix("." + ext).
with_suffix(name, ext) ==
    IF HasSuffix(name) THEN SubSeq(name, 1, Len(name) - 1) \o <<ext>>
    ELSE name \o <<ext>>

\* md_file.relative_to(input_dir): the path below the root, or a ValueError.
relative_to(p, input_dir) ==
    IF p.root = input_dir
    THEN [exc |-> NoExc, rel |-> [dir |-> p.dir, name |-> p.name]]
    ELSE [exc |-> Exc("ValueError", "is not in the subpath of", input_dir), rel |-> [dir |-> <<>>, name |-> <<>>]]

\* Path(output_dir) / rel_path.with_suffix(".pdf")
mirrored_path(output_dir, rel) ==
    [root |-> output_dir, dir |-> rel.dir, name |-> with_suffix(rel.name, "pdf")]

(***************************************************************************)
(* The writability probe and the document converter.                       *)
(*                                                                         *)
(* fs is the set of temporary files on the filesystem. What the            *)
(* environment does to one conversion is `env`, the facts the probe of the *)
(* output path meets, and `fault`, the one step that fails (the first      *)
(* failure ends the call, so one is all a call can meet).                  *)
(***************************************************************************)

ProbeEnvs == [exists : BOOLEAN, appendable : BOOLEAN, dir_writable : BOOLEAN]

Faults ==
    { "none", "read_denied", "read_error", "markdown_error", "tmp_create_error",
      "tmp_write_error", "pdfkit_configuration_error", "render_error",
      "render_denied" }

\* The temporary file of the probe of file_path, and of the HTML of input_path.
ProbeTemp(file_path) == [kind |-> "probe", of |-> file_path]

HtmlTemp(input_path) == [kind |-> "html", of |-> input_path]

\* with tempfile.NamedTemporaryFile(delete=...) as f: ...  The file is created,
\* and closing it removes it when delete is set.
WithTempFile(fs, f, delete) == IF delete THEN (fs \cup {f}) \ {f} ELSE fs \cup {f}

\* check_file_writable that takes an existing path as writable without opening it.
check_file_writable_exists_only(file_path, env, fs) ==
    IF env.exists
    THEN [ok |-> TRUE, fs |-> fs]
    ELSE IF env.dir_writable
    THEN [ok |-> TRUE, fs |-> WithTempFile(fs, ProbeTemp(file_path), TRUE)]
    ELSE [ok |-> FALSE, fs |-> fs]

\* check_file_writable: an existing path is opened for append (which creates
\* nothing); for a missing one a temporary file is created in its directory.
check_file_writable(file_path, env, fs) ==
    IF env.exists
    THEN [ok |-> env.appendable, fs |-> fs]
    ELSE IF env.dir_writable
    THEN [ok |-> TRUE, fs |-> WithTempFile(fs, ProbeTemp(file_path), TRUE)]
    ELSE [ok |-> FALSE, fs |-> fs]

\* The outcome of a stretch of code: the exception it raised (NoExc when none),
\* the steps it attempted, in order, the temporary files it leaves, the lines it
\* printed and whether it wrote the PDF.
Outcome(exc, events, fs, printed, pdf) ==
    [exc |-> exc, events |-> events, fs |-> fs, printed |-> printed, pdf |-> pdf]

Line(kind, path, detail) == [kind |-> kind, path |-> path, detail |-> detail]

\* The body of the inner try: pdfkit.configuration, the options, pdfkit.from_file.
render_try(temp_html_path, output_path, wkhtmltopdf_path, config, fault, fs) ==
    LET opt == pdf_options(config) IN
    IF fault = "pdfkit_configuration_error"
    THEN Outcome(Exc("OSError", "No wkhtmltopdf executable found: ", wkhtmltopdf_path),
                 <<"pdfkit.configuration">>, fs, <<>>, FALSE)
    ELSE IF Raised(opt.exc)
    THEN Outcome(opt.exc, <<"pdfkit.configuration", "options">>, fs, <<>>, FALSE)
    ELSE IF fault = "render_error"
    THEN Outcome(Exc("OSError", "wkhtmltopdf reported an error: ", temp_html_path),
                 <<"pdfkit.configuration", "options", "pdfkit.from_file">>, fs, <<>>, FALSE)
    ELSE IF fault = "render_denied"
    THEN Outcome(Exc("PermissionError", "Permission denied: ", wkhtmltopdf_path),
                 <<"pdfkit.configuration", "options", "pdfkit.from_file">>, fs, <<>>, FALSE)
    ELSE Outcome(NoExc, <<"pdfkit.configuration", "options", "pdfkit.from_file">>,
                 fs, <<>>, TRUE)

\* The success line printed inside the finally block: it is printed whether or
\* not the renderer raised.
render_and_cleanup_print_in_finally(input_path, output_path, wkhtmltopdf_path, config, fault, fs) ==
    LET temp  == [kind |-> "html", of |-> input_path]
        tried == render_try(temp, output_path, wkhtmltopdf_path, config, fault, fs)
    IN  [ exc |-> tried.exc, events |-> tried.events \o <<"os.unlink", "print">>,
          fs |-> tried.fs \ {temp}, printed |-> <<Line("success", input_path, None)>>,
          pdf |-> tried.pdf ]

\* try: render_try  finally: os.unlink(temp_html_path); then the success line.
render_and_cleanup(input_path, output_path, wkhtmltopdf_path, config, fault, fs) ==
    LET temp  == HtmlTemp(input_path)
        tried == render_try(temp, output_path, wkhtmltopdf_path, config, fault, fs)
    IN  IF Raised(tried.exc)
        THEN Outcome(tried.exc, tried.events \o <<"os.unlink">>, tried.fs \ {temp},
                     <<>>, FALSE)
        ELSE Outcome(NoExc, tried.events \o <<"os.unlink", "print">>, tried.fs \ {temp},
                     <<Line("success", input_path, None)>>, tried.pdf)

\* The body of convert_markdown_to_pdf's outer try.
convert_body(input_path, output_path, wkhtmltopdf_path, config, env, fault, fs) ==
    LET chk  == check_file_writable(output_path, env, fs)
        css  == generate_css(config)
        temp == HtmlTemp(input_path)
        rest == render_and_cleanup(input_path, output_path, wkhtmltopdf_path, config,
                                   fault, WithTempFile(chk.fs, temp, FALSE))
        pre  == <<"check_file_writable", "read", "markdown.markdown", "generate_css",
                  "tmp_create", "tmp_write">>
    IN  IF ~chk.ok
        THEN Outcome(Exc("PermissionError", "Cannot write to ", output_path),
                     SubSeq(pre, 1, 1), chk.fs, <<>>, FALSE)
        ELSE IF fault = "read_denied"
        THEN Outcome(Exc("PermissionError", "Permission denied: ", input_path),
                     SubSeq(pre, 1, 2), chk.fs, <<>>, FALSE)
        ELSE IF fault = "read_error"
        THEN Outcome(Exc("OSError", "cannot read ", input_path),
                     SubSeq(pre, 1, 2), chk.fs, <<>>, FALSE)
        ELSE IF fault = "markdown_error"
        THEN Outcome(Exc("ValueError", "markdown failed on ", input_path),
                     SubSeq(pre, 1, 3), chk.fs, <<>>, FALSE)
        ELSE IF Raised(css.exc)
        THEN Outcome(css.exc, SubSeq(pre, 1, 4), chk.fs, <<>>, FALSE)
        ELSE IF fault = "tmp_create_error"
        THEN Outcome(Exc("OSError", "cannot create a temporary file for ", input_path),
                     SubSeq(pre, 1, 5), chk.fs, <<>>, FALSE)
        ELSE IF fault = "tmp_write_error"
        THEN Outcome(Exc("OSError", "No space left on device: ", input_path),
                     pre, WithTempFile(chk.fs, temp, FALSE), <<>>, FALSE)
        ELSE Outcome(rest.exc, pre \o rest.events, rest.fs, rest.printed, rest.pdf)

\* except PermissionError as e: raise PermissionError(str(e))
\* except Exception as e: raise Exception("Error converting ...: " + str(e))
reraise(e) ==
    IF ~Raised(e) THEN e
    ELSE IF e.cls = "PermissionError" THEN Exc("PermissionError", e.text, e.arg)
    ELSE Exc("Exception", "Error converting markdown to PDF: ", e)

\* convert_markdown_to_pdf
convert_markdown_to_pdf(input_path, output_path, wkhtmltopdf_path, config, env, fault, fs) ==
    LET r == convert_body(input_path, output_path, wkhtmltopdf_path, config, env, fault, fs)
    IN  [r EXCEPT !.exc = reraise(r.exc)]

(***************************************************************************)
(* The directory processor: process_directory, run as the script's main.   *)
(***************************************************************************)

VARIABLES
    pc,               \* where the run is
    cfgfile,          \* the configuration file on disk
    host,             \* the host the renderer is looked for on
    tree,             \* the entries of the input directory
    config,           \* process_directory's config
    wkhtmltopdf_path, \* process_directory's wkhtmltopdf_path
    markdown_files,   \* process_directory's markdown_files
    idx,              \* the loop's position in markdown_files
    stdout,           \* the lines printed
    fs,               \* the temporary files on the filesystem
    pdfs,             \* the PDFs written: output path and the file it came from
    mkdirs,           \* the output directories created
    calls,            \* the calls of convert_markdown_to_pdf made, in order
    uncaught,         \* the exception that left process_directory, if any
    given,            \* the environment of a single conversion call
    located           \* the answer of a single find_wkhtmltopdf call

vars ==
    << pc, cfgfile, host, tree, config, wkhtmltopdf_path, markdown_files, idx,
       stdout, fs, pdfs, mkdirs, calls, uncaught, given, located >>

input_dir == "inputs/my_scenario"

output_dir == "outputs/my_scenario"

NoGiven == [env |-> [exists |-> FALSE, appendable |-> FALSE, dir_writable |-> FALSE],
            fault |-> "none", called |-> FALSE]

NoLocated == [path |-> None, probes |-> <<>>]

Init ==
    /\ pc = "load_config"
    /\ cfgfile \in RunConfigFiles
    /\ host \in RunHosts
    /\ tree \in Trees
    /\ config = {}
    /\ wkhtmltopdf_path = None
    /\ markdown_files = <<>>
    /\ idx = 1
    /\ stdout = <<>>
    /\ fs = {}
    /\ pdfs = {}
    /\ mkdirs = {}
    /\ calls = <<>>
    /\ uncaught = NoExc
    /\ given = NoGiven
    /\ located = NoLocated

\* An exception leaves process_directory: the interpreter prints the traceback
\* and the process ends.
Propagate(e) ==
    /\ pc' = "raised"
    /\ uncaught' = e

\* config = load_config(config_path)
LoadConfig ==
    /\ pc = "load_config"
    /\ LET r == load_config(cfgfile) IN
       IF Raised(r.exc)
       THEN /\ Propagate(r.exc)
            /\ UNCHANGED config
       ELSE /\ config' = r.config
            /\ pc' = "find_wkhtmltopdf"
            /\ UNCHANGED uncaught
    /\ UNCHANGED << cfgfile, host, tree, wkhtmltopdf_path, markdown_files, idx,
                    stdout, fs, pdfs, mkdirs, calls, given, located >>

InstallInstructions ==
    << Line("renderer_missing", None, "Error: wkhtmltopdf not found. Please install it:"),
       Line("renderer_missing", None, "- Windows"),
       Line("renderer_missing", None, "- macOS"),
       Line("renderer_missing", None, "- Linux") >>

\* wkhtmltopdf_path = find_wkhtmltopdf(); if not wkhtmltopdf_path: ... sys.exit(1)
FindRenderer ==
    /\ pc = "find_wkhtmltopdf"
    /\ wkhtmltopdf_path' = find_wkhtmltopdf(host).path
    /\ IF Falsy(wkhtmltopdf_path')
       THEN /\ stdout' = stdout \o InstallInstructions
            /\ pc' = "exited"
       ELSE /\ pc' = "find_markdown_files"
            /\ UNCHANGED stdout
    /\ UNCHANGED << cfgfile, host, tree, config, markdown_files, idx, fs, pdfs,
                    mkdirs, calls, uncaught, given, located >>

\* markdown_files = find_markdown_files(input_dir); if not markdown_files: return
Discover ==
    /\ pc = "find_markdown_files"
    /\ markdown_files' = find_markdown_files(input_dir, tree)
    /\ IF markdown_files' = <<>>
       THEN /\ stdout' = Append(stdout, Line("no_files", None, input_dir))
            /\ pc' = "returned"
       ELSE /\ stdout' = Append(stdout, Line("converting", None, Len(markdown_files')))
            /\ pc' = "loop"
    /\ UNCHANGED << cfgfile, host, tree, config, wkhtmltopdf_path, idx, fs, pdfs,
                    mkdirs, calls, uncaught, given, located >>

\* What a call of convert_markdown_to_pdf was given and how it ended.
Call(input_path, output_path, renderer, conf, r) ==
    [ input |-> input_path, output |-> output_path, wkhtmltopdf_path |-> renderer,
      config |-> conf, exc |-> r.exc, events |-> r.events,
      temp_left |-> HtmlTemp(input_path) \in r.fs ]

\* pdfkit.from_file writes (or overwrites) the file at output_path.
WritePdf(written, input_path, output_path) ==
    {p \in written : p.path # output_path}
        \cup {[path |-> output_path, from |-> input_path]}

\* except PermissionError as e: any other class leaves the loop.
except_PermissionError_only(e) == e.cls = "PermissionError"

\* except Exception as e: every class the model raises derives from Exception.
except_Exception(e) ==
    e.cls \in {"Exception", "PermissionError", "OSError", "KeyError", "ValueError"}

\* One turn of the loop over markdown_files.
ProcessFile ==
    /\ pc = "loop"
    /\ idx <= Len(markdown_files)
    /\ \E mkdir_ok \in BOOLEAN, env \in ProbeEnvs, fault \in Faults :
         LET md_file     == markdown_files[idx]
             rel         == relative_to(md_file, input_dir)
             output_path == mirrored_path(output_dir, rel.rel)
             parent      == [root |-> output_path.root, dir |-> output_path.dir]
             r == convert_markdown_to_pdf(md_file, output_path, wkhtmltopdf_path,
                                          config, env, fault, fs)
         IN  \* a PDF this run wrote at output_path is there
             /\ (\E p \in pdfs : p.path = output_path) => env.exists
             /\ IF Raised(rel.exc)
                THEN /\ Propagate(rel.exc)
                     /\ UNCHANGED << idx, stdout, fs, pdfs, mkdirs, calls >>
                ELSE IF ~mkdir_ok
                THEN /\ Propagate(Exc("OSError", "cannot create the directory ", parent))
                     /\ UNCHANGED << idx, stdout, fs, pdfs, mkdirs, calls >>
                ELSE /\ mkdirs' = mkdirs \cup {parent}
                     /\ calls' = Append(calls, Call(md_file, output_path,
                                                    wkhtmltopdf_path, config, r))
                     /\ fs' = r.fs
                     /\ pdfs' = IF r.pdf THEN WritePdf(pdfs, md_file, output_path) ELSE pdfs
                     /\ IF ~Raised(r.exc)
                        THEN /\ stdout' = stdout \o r.printed
                             /\ idx' = idx + 1
                             /\ UNCHANGED << pc, uncaught >>
                        ELSE IF except_Exception(r.exc)
                        THEN /\ stdout' = stdout \o r.printed
                                              \o <<Line("error", md_file, r.exc)>>
                             /\ idx' = idx + 1
                             /\ UNCHANGED << pc, uncaught >>
                        ELSE /\ stdout' = stdout \o r.printed
                             /\ Propagate(r.exc)
                             /\ UNCHANGED idx
    /\ UNCHANGED << cfgfile, host, tree, config, wkhtmltopdf_path, markdown_files,
                    given, located >>

\* print("\nDone!") and the return.
Finish ==
    /\ pc = "loop"
    /\ idx > Len(markdown_files)
    /\ stdout' = Append(stdout, Line("done", None, None))
    /\ pc' = "returned"
    /\ UNCHANGED << cfgfile, host, tree, config, wkhtmltopdf_path, markdown_files,
                    idx, fs, pdfs, mkdirs, calls, uncaught, given, located >>

Next == LoadConfig \/ FindRenderer \/ Discover \/ ProcessFile \/ Finish

Spec == Init /\ [][Next]_vars

\* The process has ended, and its exit status: 0 after a return, 1 after
\* sys.exit(1) and after an uncaught exception.
Terminated == pc \in {"returned", "exited", "raised"}

ExitStatus == IF pc = "returned" THEN 0 ELSE 1

(***************************************************************************)
(* One call of convert_markdown_to_pdf, on every configuration that loads, *)
(* every answer of the probe and every fault.                              *)
(***************************************************************************)

InitConvert ==
    /\ pc = "convert"
    /\ cfgfile \in {f \in AllConfigFiles : f.readable}
    /\ host \in {h \in RunHosts : ~Falsy(find_wkhtmltopdf(h).path)}
    /\ tree \in {t \in Trees : Len(find_markdown_files(input_dir, t)) = 1}
    /\ config = load_config(cfgfile).config
    /\ wkhtmltopdf_path = find_wkhtmltopdf(host).path
    /\ markdown_files = find_markdown_files(input_dir, tree)
    /\ idx = 1
    /\ stdout = <<>>
    /\ fs = {}
    /\ pdfs = {}
    /\ mkdirs = {}
    /\ calls = <<>>
    /\ uncaught = NoExc
    /\ given = NoGiven
    /\ located = NoLocated

ConvertCall ==
    /\ pc = "convert"
    /\ \E env \in ProbeEnvs, fault \in Faults :
         LET md_file     == markdown_files[idx]
             output_path == mirrored_path(output_dir, relative_to(md_file, input_dir).rel)
             r == convert_markdown_to_pdf(md_file, output_path, wkhtmltopdf_path,
                                          config, env, fault, fs)
         IN  /\ given' = [env |-> env, fault |-> fault, called |-> TRUE]
             /\ calls' = Append(calls, Call(md_file, output_path, wkhtmltopdf_path,
                                            config, r))
             /\ fs' = r.fs
             /\ pdfs' = IF r.pdf THEN WritePdf(pdfs, md_file, output_path) ELSE pdfs
             /\ stdout' = stdout \o r.printed
             /\ uncaught' = r.exc
    /\ pc' = "converted"
    /\ UNCHANGED << cfgfile, host, tree, config, wkhtmltopdf_path, markdown_files,
                    idx, mkdirs, located >>

SpecConvert == InitConvert /\ [][ConvertCall]_vars

(***************************************************************************)
(* One call of find_wkhtmltopdf, on every host.                            *)
(***************************************************************************)

InitFind ==
    /\ pc = "locate"
    /\ cfgfile = ConfigFile(TRUE, AllKeys)
    /\ host \in Hosts
    /\ tree = {}
    /\ config = {}
    /\ wkhtmltopdf_path = None
    /\ markdown_files = <<>>
    /\ idx = 1
    /\ stdout = <<>>
    /\ fs = {}
    /\ pdfs = {}
    /\ mkdirs = {}
    /\ calls = <<>>
    /\ uncaught = NoExc
    /\ given = NoGiven
    /\ located = NoLocated

Locate ==
    /\ pc = "locate"
    /\ located' = find_wkhtmltopdf(host)
    /\ pc' = "located"
    /\ UNCHANGED << cfgfile, host, tree, config, wkhtmltopdf_path, markdown_files,
                    idx, stdout, fs, pdfs, mkdirs, calls, uncaught, given >>

SpecFind == InitFind /\ [][Locate]_vars

(***************************************************************************)
(* The claims.                                                             *)
(***************************************************************************)

\* The single call of SpecConvert, once made.
TheCall == calls[1]

ProbeAnswer(env) == IF env.exists THEN env.appendable ELSE env.dir_writable

Min(S) == CHOOSE x \in S : \A y \in S : x <= y

\* The lines of stdout that report a file's outcome.
OutcomeLines == SelectSeq(stdout, LAMBDA l : l.kind \in {"success", "error"})

\* C1 (SpecConvert): when a call of convert_markdown_to_pdf that created a
\* temporary HTML file has returned or raised, that file is no longer on the
\* filesystem, whatever the exit path (renderer success or failure, a failure
\* building the options, a failure writing the HTML into the file).
C1_TempHtmlNeverSurvives ==
    given.called =>
        ("tmp_create" \in Range(TheCall.events) /\ given.fault # "tmp_create_error"
            => HtmlTemp(TheCall.input) \notin fs)

\* C2 (Spec): once the file list is discovered, no failure on one file (its
\* output path, its output directories, its conversion) aborts the batch: at the
\* end of the run every discovered file was attempted, each failing one has
\* exactly one error line, and the done line is the last line printed.
C2_BatchNeverAborts ==
    (Terminated /\ markdown_files # <<>>) =>
        /\ Len(calls) = Len(markdown_files)
        /\ Len(SelectSeq(stdout, LAMBDA l : l.kind = "error"))
              = Len(SelectSeq(calls, LAMBDA c : Raised(c.exc)))
        /\ stdout[Len(stdout)].kind = "done"

\* C3 as stated (Spec): a run ends with a non-zero exit status only when the
\* renderer cannot be located; a configuration load failure leaves it at success.
C3_NonZeroOnlyWithoutRenderer ==
    (Terminated /\ ExitStatus # 0) =>
        (pc = "exited" /\ find_wkhtmltopdf(host).path \in {None, ""})

\* C3 amended (Spec): a run ends with a non-zero exit status exactly when the
\* configuration cannot be loaded, when the renderer cannot be located, or when
\* creating an output directory fails (an exception that leaves
\* process_directory); per-file conversion failures, however many, leave the
\* exit status at success.
C3_ExitStatus ==
    Terminated =>
        ( ExitStatus # 0 <=>
            \/ ~cfgfile.readable /\ uncaught.text = "Error loading config file: "
            \/ cfgfile.readable /\ pc = "exited" /\ wkhtmltopdf_path \in {None, ""}
            \/ pc = "raised" /\ uncaught.text = "cannot create the directory " )

\* A run that returned with status 0 although a conversion failed.
C3_Witness ==
    /\ pc = "returned"
    /\ ExitStatus = 0
    /\ \E i \in 1..Len(calls) : Raised(calls[i].exc)

\* C4 (Spec): when find_wkhtmltopdf reports no renderer (None or the empty
\* string), process_directory discovers no Markdown file, creates no output
\* directory, never calls convert_markdown_to_pdf, invokes no renderer, and the
\* run ends with a non-zero status.
C4_NoRendererNoConversion ==
    ( /\ cfgfile.readable
      /\ find_wkhtmltopdf(host).path \in {None, ""}
      /\ pc \notin {"load_config", "find_wkhtmltopdf"} )
    => /\ pc = "exited"
       /\ Terminated
       /\ ExitStatus # 0
       /\ markdown_files = <<>>
       /\ mkdirs = {}
       /\ calls = <<>>
       /\ pdfs = {}
       /\ stdout = InstallInstructions

\* A run ended by a PATH search that exits 0 and prints nothing.
C4_Witness ==
    /\ pc = "exited"
    /\ wkhtmltopdf_path = ""
    /\ tree # {}

\* C5 (Spec): any two distinct discovered Markdown files get distinct output
\* paths, and a run in which every conversion succeeded leaves one PDF per
\* discovered Markdown file.
C5_OutputPathsOneToOne ==
    /\ \A i, j \in 1..Len(markdown_files) :
          i # j => mirrored_path(output_dir, relative_to(markdown_files[i], input_dir).rel)
                     # mirrored_path(output_dir, relative_to(markdown_files[j], input_dir).rel)
    /\ ( /\ pc = "returned"
         /\ Len(calls) = Len(markdown_files)
         /\ \A i \in 1..Len(calls) : ~Raised(calls[i].exc) )
       => Cardinality(pdfs) = Len(markdown_files)

\* C6 (SpecFind): find_wkhtmltopdf returns the result of the first stage that
\* matches, in the order PATH search (exit code 0), the well-known install paths
\* in list order, and on Windows the Program Files roots in order; a later stage
\* or entry is probed only when every earlier one did not match (a PATH search
\* that raises included), and None is returned only when no stage matches.
C6_FirstMatchWins ==
    pc = "located" =>
        LET sys    == host.system
            s1     == ~host.search.raised /\ host.search.returncode = 0
            s2     == host.exists # {}
            s3     == sys = "windows" /\ host.walk # {}
            search == << <<search_command(sys), 0>> >>
            upto(k, n) == [i \in 1..n |-> <<k, i>>]
        IN  /\ s1 => /\ located.path = Strip(host.search.stdout)
                     /\ located.probes = search
            /\ (~s1 /\ s2) =>
                     /\ located.path = common_paths(sys)[Min(host.exists)]
                     /\ located.probes = search \o upto("exists", Min(host.exists))
            /\ (~s1 /\ ~s2 /\ s3) =>
                     /\ located.path = WalkHit(Min(host.walk))
                     /\ located.probes = search \o upto("exists", 3)
                                                \o upto("walk", Min(host.walk))
            /\ (~s1 /\ ~s2 /\ ~s3) =>
                     /\ located.path = None
                     /\ located.probes = search \o upto("exists", 3)
                            \o (IF sys = "windows" THEN upto("walk", 2) ELSE <<>>)
            /\ located.path = None => (~s1 /\ ~s2 /\ ~s3)

\* The PATH search found nothing and the second and third install paths exist:
\* the second is returned.
C6_Witness ==
    /\ pc = "located"
    /\ host.search.returncode = 1
    /\ host.exists = {2, 3}
    /\ located.path = common_paths(host.system)[2]
    /\ Len(located.probes) = 3

\* C7 (SpecConvert): convert_markdown_to_pdf raises the permission-class error
\* exactly when the pre-flight writability check failed; every other failure
\* (a permission-denied read of the input file included) is raised as the
\* generic wrapped error "Error converting markdown to PDF: <cause>".
C7_PermissionErrorOnlyFromProbe ==
    (given.called /\ Raised(TheCall.exc)) =>
        IF ~ProbeAnswer(given.env)
        THEN TheCall.exc.cls = "PermissionError"
        ELSE /\ TheCall.exc.cls = "Exception"
             /\ TheCall.exc.text = "Error converting markdown to PDF: "

\* C8 as stated (SpecConvert): a CSS generation failure on a missing key occurs
\* before any rendering step of the conversion, the Markdown-to-HTML render
\* included.
C8_CssFailsBeforeMarkdownRender ==
    (given.called /\ "generate_css" \in Range(TheCall.events)
                  /\ Raised(generate_css(config).exc)) =>
        /\ "markdown.markdown" \notin Range(TheCall.events)
        /\ "tmp_write" \notin Range(TheCall.events)
        /\ "pdfkit.from_file" \notin Range(TheCall.events)

\* C8 amended (SpecConvert): when the configuration lacks a key generate_css
\* reads, CSS generation fails with a lookup error naming the first missing key
\* and yields no CSS text; in a conversion that reaches it, the failure comes
\* after the Markdown file was read and rendered to HTML and before a temporary
\* HTML file is created or written and before the renderer is invoked, and the
\* call raises the wrapped error.
C8_CssFailsBeforeTempFile ==
    (given.called /\ \E k \in Range(CssSlots) : k \notin config) =>
        /\ generate_css(config).exc.cls = "KeyError"
        /\ generate_css(config).exc.arg \in Range(CssSlots) \ config
        /\ generate_css(config).css = <<>>
        /\ Raised(TheCall.exc)
        /\ "tmp_create" \notin Range(TheCall.events)
        /\ "tmp_write" \notin Range(TheCall.events)
        /\ "pdfkit.from_file" \notin Range(TheCall.events)
        /\ ~TheCall.temp_left
        /\ pdfs = {}
        /\ "generate_css" \in Range(TheCall.events) =>
              /\ TheCall.events = <<"check_file_writable", "read", "markdown.markdown",
                                    "generate_css">>
              /\ TheCall.exc.cls = "Exception"
              /\ TheCall.exc.arg.cls = "KeyError"

\* A conversion on a configuration without fonts.main.size that got as far as
\* generate_css.
C8_Witness ==
    /\ given.called
    /\ "fonts.main.size" \notin config
    /\ "generate_css" \in Range(TheCall.events)
    /\ "markdown.markdown" \in Range(TheCall.events)

\* C9 (SpecConvert): the writability check is the first step of a conversion.
\* It fails for an existing output path iff the path cannot be opened for append
\* and for a missing one iff no temporary file can be created in its directory;
\* when it fails the call raises the permission-class error naming the output
\* path, having read no Markdown, created no temporary HTML file and invoked no
\* renderer; and the probe leaves no file behind.
C9_ProbeFirstAndFailFast ==
    given.called =>
        /\ TheCall.events[1] = "check_file_writable"
        /\ ProbeTemp(TheCall.output) \notin fs
        /\ IF ProbeAnswer(given.env)
           THEN /\ Len(TheCall.events) >= 2
                /\ TheCall.events[2] = "read"
           ELSE /\ TheCall.events = <<"check_file_writable">>
                /\ TheCall.exc.cls = "PermissionError"
                /\ TheCall.exc.text = "Cannot write to "
                /\ TheCall.exc.arg = TheCall.output
                /\ fs = {}
                /\ pdfs = {}
                /\ stdout = <<>>

\* A call whose output path exists and cannot be opened for append.
C9_Witness ==
    /\ given.called
    /\ given.env.exists
    /\ ~given.env.appendable
    /\ given.env.dir_writable
    /\ TheCall.exc.cls = "PermissionError"

\* C10 (Spec): in a run that printed the final done line, every discovered
\* Markdown path was passed to convert_markdown_to_pdf exactly once, in discovery
\* order, with the one configuration and the one renderer path resolved before
\* the loop, and produced exactly one outcome line: the success marker, printed
\* only after the renderer returned and the temporary HTML file was deleted, or
\* one error line naming the path.
C10_OneOutcomePerFile ==
    (stdout # <<>> /\ stdout[Len(stdout)].kind = "done") =>
        /\ Len(calls) = Len(markdown_files)
        /\ Len(OutcomeLines) = Len(markdown_files)
        /\ \A i, j \in 1..Len(markdown_files) :
              i # j => markdown_files[i] # markdown_files[j]
        /\ \A i \in 1..Len(calls) :
              /\ calls[i].input = markdown_files[i]
              /\ calls[i].config = cfgfile.keys
              /\ calls[i].wkhtmltopdf_path = find_wkhtmltopdf(host).path
              /\ OutcomeLines[i].path = markdown_files[i]
              /\ OutcomeLines[i].kind = "success" <=> ~Raised(calls[i].exc)
              /\ OutcomeLines[i].kind = "success" =>
                    /\ Len(calls[i].events) >= 3
                    /\ SubSeq(calls[i].events, Len(calls[i].events) - 2,
                              Len(calls[i].events))
                         = <<"pdfkit.from_file", "os.unlink", "print">>
                    /\ ~calls[i].temp_left

\* A finished run of two files, the first of which failed and the second of
\* which was converted.
C10_Witness ==
    /\ pc = "returned"
    /\ Len(calls) = 2
    /\ Raised(calls[1].exc)
    /\ ~Raised(calls[2].exc)
    /\ stdout[Len(stdout)].kind = "done"

====
